---------------------------- MODULE Spec2Model ----------------------------
(***************************************************************************)
(* Guardrail pipeline of the agent: RateLimiter, InputValidator,           *)
(* PromptInjectionDetector, PIIScanner, OutputValidator, GroundingService, *)
(* GuardrailsService and AgentService.analyze.                             *)
(*                                                                         *)
(* The runtime is a single-threaded event loop: synchronous code runs to   *)
(* completion, and an async function is interrupted only at its awaits.    *)
(* One action of the model is therefore one run of analyze from one await  *)
(* to the next.  The pending continuations of analyze are kept as a bag:   *)
(* two continuations that captured the same values are indistinguishable.  *)
(***************************************************************************)
EXTENDS Integers, Sequences, FiniteSets, Bags, TLC

(***************************************************************************)
(* Program constants                                                       *)
(***************************************************************************)
requestsPerMinute == 10
requestsPerHour == 100
maxConcurrent == 5
MinuteMs == 60000
HourMs == 3600000
MAX_RESPONSE_LENGTH == 2000
MaxReasoningLength == 1000
MinQuestionLength == 3
MaxQuestionLength == 500
TOO_MANY_REQUESTS == 429
BAD_REQUEST == 400
INTERNAL_SERVER_ERROR == 500
HTTP_CREATED == 201

(***************************************************************************)
(* Bounds of the model                                                     *)
(***************************************************************************)
\* Spec: analyze calls that may be suspended at an await at the same time
MaxPending == 1
\* Spec: admissions an identity may have counted in its hour window
MaxAdmitted == 1
\* Spec: times the clock may advance
MaxTicks == 1
\* SpecLoad: analyze calls that may be suspended at an await at the same time
MaxLoad == 6
\* SpecLimiter: admit calls an identity may make in a row
MaxCalls == 11
\* SpecPair: admissions an identity may have counted in its hour
MaxOther == 1
\* SpecLimiter: times the clock may advance
MaxAdvances == 2
\* SpecPair, SpecGuard: times the clock may advance
MaxPairAdvances == 1
\* SpecLimiter: minutes the identity may have been busy before
MaxBusyMinutes == 9
\* SpecIdle: hours the clock advances once the identities are idle
MaxIdleTicks == 2
\* SpecUnits: pieces in a text handed to a unit
MaxTextLen == 3

Users == {"u1"}

(***************************************************************************)
(* RateLimiter                                                             *)
(***************************************************************************)
\* new UserWindow of checkAndIncrement, created at time t
NewWindow(t) ==
    [minuteCount |-> 0, hourCount |-> 0, concurrent |-> 0,
     minuteReset |-> t + MinuteMs, hourReset |-> t + HourMs]

\* a reset that starts both windows again as soon as the minute has passed
ResetExpiredTogether(w, t) ==
    IF t > w.minuteReset
    THEN [w EXCEPT !.minuteCount = 0, !.minuteReset = t + MinuteMs,
                   !.hourCount = 0, !.hourReset = t + HourMs]
    ELSE w

\* "Reset windows if expired": the two windows are reset independently
ResetExpired(w, t) ==
    LET w1 == IF t > w.minuteReset
              THEN [w EXCEPT !.minuteCount = 0, !.minuteReset = t + MinuteMs]
              ELSE w
    IN  IF t > w1.hourReset
        THEN [w1 EXCEPT !.hourCount = 0, !.hourReset = t + HourMs]
        ELSE w1

\* a test of the limits that lets the count pass the cap by one
LimitHitAbove(w) ==
    IF w.minuteCount > requestsPerMinute THEN "minute"
    ELSE IF w.hourCount > requestsPerHour THEN "hour"
    ELSE IF w.concurrent > maxConcurrent THEN "concurrent"
    ELSE "none"

\* a test of the limits that looks at the hour before the minute
LimitHitHourFirst(w) ==
    IF w.hourCount >= requestsPerHour THEN "hour"
    ELSE IF w.minuteCount >= requestsPerMinute THEN "minute"
    ELSE IF w.concurrent >= maxConcurrent THEN "concurrent"
    ELSE "none"

\* "Check limits": which limit the window has reached, in the order tested
LimitHit(w) ==
    IF w.minuteCount >= requestsPerMinute THEN "minute"
    ELSE IF w.hourCount >= requestsPerHour THEN "hour"
    ELSE IF w.concurrent >= maxConcurrent THEN "concurrent"
    ELSE "none"

\* "Increment"
Increment(w) ==
    [w EXCEPT !.minuteCount = @ + 1, !.hourCount = @ + 1, !.concurrent = @ + 1]

\* Map.set(userId, window)
MapSet(windows, userId, w) ==
    [u \in DOMAIN windows \cup {userId} |-> IF u = userId THEN w ELSE windows[u]]

\* The limiter as the guardrails see it: the map of windows, and the number
\* of calls of complete made during the current run of analyze
Limiter(windows) == [userWindows |-> windows, completeCalls |-> 0]

\* RateLimiter.checkAndIncrement(userId) at time t: the limiter afterwards and
\* the limit named by the HttpException it throws ("none" when it returns).
\* The window is created and the expired counts are reset before the limits
\* are tested, so both survive a throw.
checkAndIncrement(rl, userId, t) ==
    LET w0  == IF userId \in DOMAIN rl.userWindows
               THEN rl.userWindows[userId] ELSE NewWindow(t)
        w1  == ResetExpired(w0, t)
        hit == LimitHit(w1)
    IN  [rl |-> [rl EXCEPT !.userWindows =
                    MapSet(@, userId, IF hit = "none" THEN Increment(w1) ELSE w1)],
         thrown |-> hit]

\* a release that gives the admission back to the minute count as well
completeUncounts(rl, userId) ==
    [userWindows |->
        IF userId \in DOMAIN rl.userWindows /\ rl.userWindows[userId].concurrent > 0
        THEN [rl.userWindows EXCEPT ![userId].concurrent = @ - 1,
                                    ![userId].minuteCount = @ - 1]
        ELSE rl.userWindows,
     completeCalls |-> rl.completeCalls + 1]

\* a release that lowers the counter of every identity
completeEveryone(rl, userId) ==
    [userWindows |->
        [u \in DOMAIN rl.userWindows |->
            IF rl.userWindows[u].concurrent > 0
            THEN [rl.userWindows[u] EXCEPT !.concurrent = @ - 1]
            ELSE rl.userWindows[u]],
     completeCalls |-> rl.completeCalls + 1]

\* a release that lowers the concurrency whatever it is
completeUnfloored(rl, userId) ==
    [userWindows |->
        IF userId \in DOMAIN rl.userWindows
        THEN [rl.userWindows EXCEPT ![userId].concurrent = @ - 1]
        ELSE rl.userWindows,
     completeCalls |-> rl.completeCalls + 1]

\* RateLimiter.complete(userId)
complete(rl, userId) ==
    [userWindows |->
        IF userId \in DOMAIN rl.userWindows /\ rl.userWindows[userId].concurrent > 0
        THEN [rl.userWindows EXCEPT ![userId].concurrent = @ - 1]
        ELSE rl.userWindows,
     completeCalls |-> rl.completeCalls + 1]

\* RateLimiter.cleanup at time t: the windows it leaves in the map
cleanup(windows, t) ==
    LET kept == {u \in DOMAIN windows :
                    ~(t > windows[u].hourReset /\ windows[u].concurrent = 0)}
    IN  [u \in kept |-> windows[u]]

\* RateLimiter.getUsage(userId).concurrent, 0 for an identity without a window
ConcurrentOf(windows, userId) ==
    IF userId \in DOMAIN windows THEN windows[userId].concurrent ELSE 0

(***************************************************************************)
(* Text.  A string is a sequence of lexical chunks; a chunk is a run of    *)
(* characters that the regular expressions of the guardrails match or      *)
(* replace as a unit.  Width is the number of characters of a chunk,       *)
(* Specials the number of them that are neither alphanumeric nor space.    *)
(***************************************************************************)
Chunks ==
    {"Hi", "Why", "members", "W1000", " ", "<BEL>", "?!#$",
     "ignore previous", "system:", "system", ":", "http://",
     "123-45-6789", "12345-6789", "12345", "a@b.co", "MRN:123456789", "MRN:",
     "123-45-6789@b.co", "@b.co",
     "password", "<script", "undefined",
     "Unable to complete analysis. Please try a different question or contact support.",
     "Analysis could not be completed due to validation or processing error.",
     "[SSN REDACTED]", "[EMAIL REDACTED]", "[PHONE REDACTED]", "[CARD REDACTED]",
     "[DOB REDACTED]", "[ZIP REDACTED]", "[MRN REDACTED]", "[MEMBER_ID REDACTED]"}

Width(c) ==
    CASE c = "Hi" -> 2
      [] c = "Why" -> 3
      [] c = "members" -> 7
      [] c = "W1000" -> 1000
      [] c \in {" ", "<BEL>", ":"} -> 1
      [] c = "system" -> 6
      [] c = "?!#$" -> 4
      [] c = "ignore previous" -> 15
      [] c \in {"system:", "http://", "<script"} -> 7
      [] c = "123-45-6789" -> 11
      [] c = "12345-6789" -> 10
      [] c = "12345" -> 5
      [] c = "a@b.co" -> 6
      [] c = "MRN:123456789" -> 13
      [] c = "123-45-6789@b.co" -> 16
      [] c = "@b.co" -> 5
      [] c = "MRN:" -> 4
      [] c = "password" -> 8
      [] c = "undefined" -> 9
      [] c = "Unable to complete analysis. Please try a different question or contact support." -> 80
      [] c = "Analysis could not be completed due to validation or processing error." -> 70
      [] c = "[SSN REDACTED]" -> 14
      [] c = "[EMAIL REDACTED]" -> 16
      [] c = "[PHONE REDACTED]" -> 16
      [] c = "[CARD REDACTED]" -> 15
      [] c = "[DOB REDACTED]" -> 14
      [] c = "[ZIP REDACTED]" -> 14
      [] c = "[MRN REDACTED]" -> 14
      [] c = "[MEMBER_ID REDACTED]" -> 20

Specials(c) ==
    CASE c \in {"?!#$", "123-45-6789@b.co"} -> 4
      [] c \in {"http://", "a@b.co"} -> 3
      [] c \in {"123-45-6789", "@b.co"} -> 2
      [] c \in {"system:", ":", "12345-6789", "MRN:123456789", "MRN:", "<script"} -> 1
      [] c \in {"[SSN REDACTED]", "[EMAIL REDACTED]", "[PHONE REDACTED]",
                "[CARD REDACTED]", "[DOB REDACTED]", "[ZIP REDACTED]",
                "[MRN REDACTED]"} -> 2
      [] c = "[MEMBER_ID REDACTED]" -> 3
      [] c = "Unable to complete analysis. Please try a different question or contact support." -> 2
      [] c = "Analysis could not be completed due to validation or processing error." -> 1
      [] OTHER -> 0

RECURSIVE Sum(_, _)
\* sum of f over the chunks of a string
Sum(f(_), s) == IF s = <<>> THEN 0 ELSE f(Head(s)) + Sum(f, Tail(s))

\* String.prototype.length
Length(s) == Sum(Width, s)

RECURSIVE Slice(_, _)
\* String.prototype.slice(0, n); a chunk the cut falls into is dropped whole
Slice(s, n) ==
    IF s = <<>> \/ Width(Head(s)) > n THEN <<>>
    ELSE <<Head(s)>> \o Slice(Tail(s), n - Width(Head(s)))

RECURSIVE Flatten(_)
\* concatenation of a sequence of strings
Flatten(ss) == IF ss = <<>> THEN <<>> ELSE Head(ss) \o Flatten(Tail(ss))

\* the least element of a non-empty set of integers
Min(S) == CHOOSE x \in S : \A y \in S : x <= y

(***************************************************************************)
(* Values.  The providers return JSON.parse of the model's text unchecked, *)
(* so a field of an LLMAnalysisResult is any JSON value: a string, absent  *)
(* (undefined), or an object such as {"toString":0} that cannot be         *)
(* converted to a string (ToPrimitive throws a TypeError).                 *)
(***************************************************************************)
Str(s) == [type |-> "string", text |-> s]
Undefined == [type |-> "undefined"]
Unprintable == [type |-> "object"]

IsString(v) == v.type = "string"

\* ToString(v), for a value that can be converted
ToText(v) == IF IsString(v) THEN v.text ELSE <<"undefined">>

\* ToBoolean(v)
Truthy(v) == IF IsString(v) THEN v.text # <<>> ELSE v.type = "object"

(***************************************************************************)
(* InputValidator                                                          *)
(***************************************************************************)
RECURSIVE StripControl(_)
\* replace(/[\x00-\x1F\x7F]/g, '')
StripControl(s) ==
    IF s = <<>> THEN <<>>
    ELSE IF Head(s) = "<BEL>" THEN StripControl(Tail(s))
    ELSE <<Head(s)>> \o StripControl(Tail(s))

RECURSIVE CollapseSpaces(_)
\* replace(/\s+/g, ' ')
CollapseSpaces(s) ==
    IF Len(s) < 2 THEN s
    ELSE IF s[1] = " " /\ s[2] = " " THEN CollapseSpaces(Tail(s))
    ELSE <<Head(s)>> \o CollapseSpaces(Tail(s))

\* trim()
Trim(s) ==
    LET kept == {i \in 1..Len(s) : s[i] # " "}
    IN  IF kept = {} THEN <<>>
        ELSE SubSeq(s, Min(kept), CHOOSE i \in kept : \A j \in kept : j <= i)

\* InputValidator.sanitize
sanitize(input) == Trim(CollapseSpaces(StripControl(input)))

\* InputSchema.shape.question.safeParse: the messages of the failed checks
QuestionSchemaErrors(s) ==
    (IF Length(s) < MinQuestionLength THEN <<"Question too short (min 3 chars)">> ELSE <<>>)
    \o (IF Length(s) > MaxQuestionLength THEN <<"Question too long (max 500 chars)">> ELSE <<>>)

\* InputValidator.validateContent; the ratio s/l > 0.5 is 2*s > l for l > 0,
\* and for l = 0 it is 0/0 = NaN, which is not greater than 0.5
validateContent(question) ==
    (IF Length(question) = 0 THEN <<"Question is empty after sanitization">> ELSE <<>>)
    \o (IF Length(question) > 0 /\ 2 * Sum(Specials, question) > Length(question)
        THEN <<"Question contains too many special characters">> ELSE <<>>)

\* a validator that runs the content checks whatever the length checks said
validateQuestionAllChecks(question) ==
    LET sanitized == sanitize(question)
        schemaErrors == QuestionSchemaErrors(sanitized)
        contentErrors == validateContent(sanitized)
    IN  IF schemaErrors \o contentErrors # <<>>
        THEN [valid |-> FALSE, sanitized |-> <<>>, errors |-> schemaErrors \o contentErrors]
        ELSE [valid |-> TRUE, sanitized |-> sanitized, errors |-> <<>>]

\* InputValidator.validate
validateQuestion(question) ==
    LET sanitized == sanitize(question)
        schemaErrors == QuestionSchemaErrors(sanitized)
        contentErrors == validateContent(sanitized)
    IN  IF schemaErrors # <<>>
        THEN [valid |-> FALSE, sanitized |-> <<>>, errors |-> schemaErrors]
        ELSE IF contentErrors # <<>>
        THEN [valid |-> FALSE, sanitized |-> <<>>, errors |-> contentErrors]
        ELSE [valid |-> TRUE, sanitized |-> sanitized, errors |-> <<>>]

(***************************************************************************)
(* PromptInjectionDetector                                                 *)
(***************************************************************************)
\* the reasons of INJECTION_PATTERNS, in declaration order
INJECTION_PATTERNS ==
    <<"Instruction override attempt", "Instruction override attempt",
      "Instruction override attempt",
      "System prompt manipulation", "System prompt manipulation",
      "System prompt manipulation", "System prompt manipulation",
      "Role manipulation attempt", "Role manipulation attempt",
      "Role manipulation attempt", "Role manipulation attempt",
      "Jailbreak attempt", "Jailbreak attempt", "Jailbreak attempt",
      "Prompt extraction attempt", "Prompt extraction attempt",
      "Prompt extraction attempt",
      "Code execution attempt", "Code execution attempt", "Code execution attempt",
      "Potential data exfiltration", "URL injection attempt">>

\* the patterns of INJECTION_PATTERNS (by position) that match inside a chunk
InjectionHits(c) ==
    CASE c = "ignore previous" -> {1}
      [] c = "system:" -> {4}
      [] c = "http://" -> {22}
      [] OTHER -> {}

\* the patterns that match across chunks: /system\s*:/ matches "system" and
\* ":" with nothing but white space between them
InjectionSpans(input) ==
    IF \E i, j \in 1..Len(input) :
          /\ i < j /\ input[i] = "system" /\ input[j] = ":"
          /\ \A k \in (i + 1)..(j - 1) : input[k] = " "
    THEN {4} ELSE {}

\* a detector that goes through the whole list and reports the last match
detectLastMatch(input) ==
    LET hits == {i \in 1..Len(INJECTION_PATTERNS) :
                    \E j \in 1..Len(input) : i \in InjectionHits(input[j])}
                \cup InjectionSpans(input)
        latest == CHOOSE x \in hits : \A y \in hits : x >= y
    IN  IF hits = {} THEN [blocked |-> FALSE, reason |-> "", pattern |-> 0]
        ELSE [blocked |-> TRUE, reason |-> INJECTION_PATTERNS[latest],
              pattern |-> latest]

\* PromptInjectionDetector.detect: the first pattern that tests true
detect(input) ==
    LET hits == {i \in 1..Len(INJECTION_PATTERNS) :
                    \E j \in 1..Len(input) : i \in InjectionHits(input[j])}
                \cup InjectionSpans(input)
    IN  IF hits = {} THEN [blocked |-> FALSE, reason |-> "", pattern |-> 0]
        ELSE [blocked |-> TRUE, reason |-> INJECTION_PATTERNS[Min(hits)],
              pattern |-> Min(hits)]

(***************************************************************************)
(* PIIScanner                                                              *)
(***************************************************************************)
PII_PATTERNS ==
    << [name |-> "SSN",        replacement |-> "[SSN REDACTED]"],
       [name |-> "Email",      replacement |-> "[EMAIL REDACTED]"],
       [name |-> "Phone",      replacement |-> "[PHONE REDACTED]"],
       [name |-> "CreditCard", replacement |-> "[CARD REDACTED]"],
       [name |-> "DOB",        replacement |-> "[DOB REDACTED]"],
       [name |-> "ZipCode",    replacement |-> "[ZIP REDACTED]"],
       [name |-> "MRN",        replacement |-> "[MRN REDACTED]"],
       [name |-> "MemberID",   replacement |-> "[MEMBER_ID REDACTED]"] >>

\* the patterns of PII_PATTERNS (by position) that match inside a chunk:
\* 12345-6789 is a ZIP+4 and also 3, 2 and 4 digits with one separator;
\* the nine digits of MRN:123456789 are also an SSN without separators;
\* 123-45-6789@b.co is an address whose local part is also an SSN
PIIHits(c) ==
    CASE c = "123-45-6789" -> {1}
      [] c = "12345-6789" -> {1, 6}
      [] c = "12345" -> {6}
      [] c = "a@b.co" -> {2}
      [] c = "MRN:123456789" -> {1, 7}
      [] c = "123-45-6789@b.co" -> {1, 2}
      [] OTHER -> {}

\* a replacement that leaves the first five digits of an SSN behind
ReplaceInChunkLeavesDigits(k, c) ==
    IF k \notin PIIHits(c) THEN <<c>>
    ELSE IF c = "MRN:123456789" /\ k = 1 THEN <<"MRN:", PII_PATTERNS[k].replacement>>
    ELSE IF c = "123-45-6789@b.co" /\ k = 1 THEN <<PII_PATTERNS[k].replacement, "@b.co">>
    ELSE IF c = "123-45-6789" /\ k = 1 THEN <<"12345">>
    ELSE <<PII_PATTERNS[k].replacement>>

\* chunk.replace(PII_PATTERNS[k].pattern, PII_PATTERNS[k].replacement): what
\* the pattern does not match of the chunk is left, as "MRN:" before the
\* nine digits and "@b.co" after the SSN
ReplaceInChunk(k, c) ==
    IF k \notin PIIHits(c) THEN <<c>>
    ELSE IF c = "MRN:123456789" /\ k = 1 THEN <<"MRN:", PII_PATTERNS[k].replacement>>
    ELSE IF c = "123-45-6789@b.co" /\ k = 1 THEN <<PII_PATTERNS[k].replacement, "@b.co">>
    ELSE <<PII_PATTERNS[k].replacement>>

\* pattern.test(text)
PIITest(k, text) == \E j \in 1..Len(text) : k \in PIIHits(text[j])

\* text.replace(pattern, replacement) with the global flag
PIIReplace(k, text) == Flatten([j \in 1..Len(text) |-> ReplaceInChunk(k, text[j])])

RECURSIVE ScanFromAccumulating(_, _, _, _)
\* a loop that tests each pattern on the text as redacted so far
ScanFromAccumulating(k, text, detectedTypes, redacted) ==
    IF k > Len(PII_PATTERNS)
    THEN [containsPII |-> detectedTypes # <<>>, detectedTypes |-> detectedTypes,
          redacted |-> redacted]
    ELSE IF PIITest(k, redacted)
    THEN ScanFromAccumulating(k + 1, text, Append(detectedTypes, PII_PATTERNS[k].name),
                              PIIReplace(k, redacted))
    ELSE ScanFromAccumulating(k + 1, text, detectedTypes, redacted)

RECURSIVE ScanFrom(_, _, _, _)
\* the loop of PIIScanner.scan from pattern k on: each pattern is tested on
\* the text as given and replaced in the text as redacted so far
ScanFrom(k, text, detectedTypes, redacted) ==
    IF k > Len(PII_PATTERNS)
    THEN [containsPII |-> detectedTypes # <<>>, detectedTypes |-> detectedTypes,
          redacted |-> redacted]
    ELSE IF PIITest(k, text)
    THEN ScanFrom(k + 1, text, Append(detectedTypes, PII_PATTERNS[k].name),
                  PIIReplace(k, redacted))
    ELSE ScanFrom(k + 1, text, detectedTypes, redacted)

\* PIIScanner.scan
scan(text) == ScanFrom(1, text, <<>>, text)

\* PIIScanner.redactResponse
redactResponse(response) == scan(response).redacted

(***************************************************************************)
(* OutputValidator                                                         *)
(***************************************************************************)
Confidences == {"high", "medium", "low"}

\* ResponseSchema.safeParse(response): one message for each failed check
ResponseSchemaErrors(response) ==
    (IF ~IsString(response.summary) THEN <<"summary: not a string">>
     ELSE IF Length(response.summary.text) < 1 THEN <<"summary: too short">>
     ELSE IF Length(response.summary.text) > MAX_RESPONSE_LENGTH
     THEN <<"summary: too long">> ELSE <<>>)
    \o (IF response.confidence \notin Confidences
        THEN <<"confidence: invalid enum value">> ELSE <<>>)
    \o (IF response.reasoning = Undefined THEN <<>>
        ELSE IF ~IsString(response.reasoning) THEN <<"reasoning: not a string">>
        ELSE IF Length(response.reasoning.text) > MaxReasoningLength
        THEN <<"reasoning: too long">> ELSE <<>>)

FORBIDDEN_PATTERNS ==
    <<"Potential credential leak", "Script injection", "Inappropriate content">>

\* the patterns of FORBIDDEN_PATTERNS (by position) that match inside a chunk
ForbiddenHits(c) ==
    CASE c = "password" -> {1}
      [] c = "<script" -> {2}
      [] OTHER -> {}

RECURSIVE CheckFrom(_, _)
\* OutputValidator.checkContent from pattern k on
CheckFrom(k, text) ==
    IF k > Len(FORBIDDEN_PATTERNS) THEN <<>>
    ELSE (IF \E j \in 1..Len(text) : k \in ForbiddenHits(text[j])
          THEN <<FORBIDDEN_PATTERNS[k]>> ELSE <<>>) \o CheckFrom(k + 1, text)

\* OutputValidator.checkContent(text); pattern.test converts its argument
\* to a string first
checkContent(v) == CheckFrom(1, ToText(v))

\* OutputValidator.validate.  thrown: the TypeError of pattern.test on a
\* summary, or a truthy reasoning, that cannot be converted to a string.
validate(response) ==
    LET schemaErrors == ResponseSchemaErrors(response)
        throws == \/ response.summary = Unprintable
                  \/ Truthy(response.reasoning) /\ response.reasoning = Unprintable
        contentErrors == checkContent(response.summary)
        reasoningErrors == IF Truthy(response.reasoning)
                           THEN checkContent(response.reasoning) ELSE <<>>
        errors == schemaErrors \o contentErrors \o reasoningErrors
    IN  IF throws THEN [thrown |-> TRUE, valid |-> FALSE, errors |-> <<>>]
        ELSE IF errors # <<>> THEN [thrown |-> FALSE, valid |-> FALSE, errors |-> errors]
        ELSE [thrown |-> FALSE, valid |-> TRUE, errors |-> <<>>,
              validated |->
                [summary |-> Str(Slice(response.summary.text, MAX_RESPONSE_LENGTH)),
                 confidence |-> response.confidence,
                 reasoning |-> IF response.reasoning = Undefined THEN Undefined
                               ELSE Str(Slice(response.reasoning.text, MaxReasoningLength))]]

\* OutputValidator.getFallbackResponse
getFallbackResponse ==
    [summary |-> Str(<<"Unable to complete analysis. Please try a different question or contact support.">>),
     confidence |-> "low",
     reasoning |-> Str(<<"Analysis could not be completed due to validation or processing error.">>)]

(***************************************************************************)
(* Errors.  An HttpException carries its status; BadRequestException is    *)
(* the HttpException of status 400.                                        *)
(***************************************************************************)
HttpException(status) == [type |-> "HttpException", status |-> status]
BadRequestException == [type |-> "BadRequestException", status |-> BAD_REQUEST]
PlainError == [type |-> "Error", status |-> 0]
TypeError == [type |-> "TypeError", status |-> 0]
NoError == [type |-> "none", status |-> 0]

(***************************************************************************)
(* GuardrailsService                                                       *)
(***************************************************************************)
\* the scan of one field of the validated response in postProcess
\* a redaction that hands the field back untouched
RedactFieldSkipped(v) == v

RedactField(v) ==
    IF IsString(v) /\ scan(v.text).containsPII THEN Str(scan(v.text).redacted) ELSE v

\* a preProcess that looks for injections and PII in the question as given
preProcessOnRawText(rl, question, userId, t) ==
    LET admit == checkAndIncrement(rl, userId, t)
        inputResult == validateQuestion(question)
        injectionResult == detect(question)
        piiResult == scan(question)
    IN  IF admit.thrown # "none"
        THEN [rl |-> complete(admit.rl, userId),
              thrown |-> HttpException(TOO_MANY_REQUESTS), allowed |-> FALSE,
              stage |-> admit.thrown, sanitizedQuestion |-> <<>>]
        ELSE IF ~inputResult.valid
        THEN [rl |-> admit.rl, thrown |-> NoError, allowed |-> FALSE,
              stage |-> "input", sanitizedQuestion |-> <<>>]
        ELSE IF injectionResult.blocked
        THEN [rl |-> admit.rl, thrown |-> NoError, allowed |-> FALSE,
              stage |-> "injection", sanitizedQuestion |-> <<>>]
        ELSE IF piiResult.containsPII
        THEN [rl |-> admit.rl, thrown |-> NoError, allowed |-> FALSE,
              stage |-> "pii", sanitizedQuestion |-> <<>>]
        ELSE [rl |-> admit.rl, thrown |-> NoError, allowed |-> TRUE,
              stage |-> "allowed", sanitizedQuestion |-> inputResult.sanitized]

\* GuardrailsService.preProcess at time t.  thrown: the exception that leaves
\* it (NoError when it returns); stage: the check that decided.
preProcess(rl, question, userId, t) ==
    LET admit == checkAndIncrement(rl, userId, t)
        inputResult == validateQuestion(question)
        injectionResult == detect(inputResult.sanitized)
        piiResult == scan(inputResult.sanitized)
    IN  IF admit.thrown # "none"
        THEN \* catch: complete(userId), rethrow
             [rl |-> complete(admit.rl, userId),
              thrown |-> HttpException(TOO_MANY_REQUESTS), allowed |-> FALSE,
              stage |-> admit.thrown, sanitizedQuestion |-> <<>>]
        ELSE IF ~inputResult.valid
        THEN [rl |-> admit.rl, thrown |-> NoError, allowed |-> FALSE,
              stage |-> "input", sanitizedQuestion |-> <<>>]
        ELSE IF injectionResult.blocked
        THEN [rl |-> admit.rl, thrown |-> NoError, allowed |-> FALSE,
              stage |-> "injection", sanitizedQuestion |-> <<>>]
        ELSE IF piiResult.containsPII
        THEN [rl |-> admit.rl, thrown |-> NoError, allowed |-> FALSE,
              stage |-> "pii", sanitizedQuestion |-> <<>>]
        ELSE [rl |-> admit.rl, thrown |-> NoError, allowed |-> TRUE,
              stage |-> "allowed", sanitizedQuestion |-> inputResult.sanitized]

\* a post-processing that redacts whatever the model produced, valid or not,
\* and never substitutes the fallback
PostProcessBodyNoFallback(response) ==
    [thrown |-> validate(response).thrown, valid |-> TRUE,
     response |->
       [summary |-> IF IsString(response.summary)
                    THEN Str(scan(response.summary.text).redacted)
                    ELSE response.summary,
        confidence |-> response.confidence,
        reasoning |-> IF IsString(response.reasoning)
                      THEN Str(scan(response.reasoning.text).redacted)
                      ELSE response.reasoning]]

\* the try block of GuardrailsService.postProcess
PostProcessBody(response) ==
    LET validationResult == validate(response)
    IN  IF validationResult.thrown
        THEN [thrown |-> TRUE, valid |-> FALSE, response |-> getFallbackResponse]
        ELSE IF ~validationResult.valid
        THEN [thrown |-> FALSE, valid |-> TRUE, response |-> getFallbackResponse]
        ELSE [thrown |-> FALSE, valid |-> TRUE,
              response |->
                [summary |-> RedactField(validationResult.validated.summary),
                 confidence |-> validationResult.validated.confidence,
                 reasoning |-> IF Truthy(validationResult.validated.reasoning)
                               THEN RedactField(validationResult.validated.reasoning)
                               ELSE validationResult.validated.reasoning]]

\* GuardrailsService.postProcess: the try block, then finally complete(userId)
postProcess(rl, response, userId) ==
    [rl |-> complete(rl, userId),
     thrown |-> PostProcessBody(response).thrown,
     valid |-> PostProcessBody(response).valid,
     response |-> PostProcessBody(response).response]

\* GuardrailsService.handleError: thrown when the error is rethrown
\* an error handler that releases and rethrows whatever it is given
handleErrorRethrowsAll(rl, error, userId) ==
    [rl |-> complete(rl, userId),
     thrown |-> TRUE,
     response |-> getFallbackResponse]

handleError(rl, error, userId) ==
    [rl |-> complete(rl, userId),
     thrown |-> error.type = "BadRequestException",
     response |-> getFallbackResponse]

(***************************************************************************)
(* GroundingService                                                        *)
(***************************************************************************)
\* Scores are in tenths: 8 is 0.8, and the scores of a verdict as its type
\* describes them run from 0 to MaxScore
GroundingThreshold == 8
MaxScore == 10

\* what the audit call llmProvider.analyze('Grounding Audit', prompt) does:
\* it fails (timeout, provider error), or its summary holds a JSON verdict,
\* or no JSON can be parsed from it and only its own confidence is left
AuditOutcomes ==
    {[kind |-> "failed", grounded |-> FALSE, numeric |-> TRUE, score |-> 0,
      confidence |-> "low"]}
    \cup {[kind |-> "json", grounded |-> g, numeric |-> TRUE, score |-> sc,
           confidence |-> "medium"] : g \in BOOLEAN, sc \in {-5, 2, 9, 15}}
    \cup {[kind |-> "json", grounded |-> TRUE, numeric |-> FALSE, score |-> 0,
           confidence |-> "medium"]}
    \cup {[kind |-> "text", grounded |-> FALSE, numeric |-> TRUE, score |-> 0,
           confidence |-> c] : c \in {"high", "low"}}

\* Number(parsed.score) || 0: a score that is no number (absent, or text
\* that is no numeral) gives NaN and then 0; a number is kept as it is
NumberOrZero(result) == IF result.numeric THEN result.score ELSE 0

\* a parser whose fallback gives a medium confidence the threshold score
parseAuditResultLenient(result) ==
    IF result.kind = "json"
    THEN [grounded |-> result.grounded, score |-> NumberOrZero(result), reason |-> "audit"]
    ELSE LET confidenceScore == IF result.confidence = "high" THEN 9
                                ELSE IF result.confidence = "medium" THEN 8 ELSE 3
         IN  [grounded |-> confidenceScore >= GroundingThreshold,
              score |-> confidenceScore, reason |-> "confidence"]

\* GroundingService.parseAuditResult
parseAuditResult(result) ==
    IF result.kind = "json"
    THEN [grounded |-> result.grounded, score |-> NumberOrZero(result), reason |-> "audit"]
    ELSE LET confidenceScore == IF result.confidence = "high" THEN 9
                                ELSE IF result.confidence = "medium" THEN 6 ELSE 3
         IN  [grounded |-> confidenceScore >= GroundingThreshold,
              score |-> confidenceScore, reason |-> "confidence"]

\* the catch of GroundingService.check
GroundingFailed ==
    [grounded |-> FALSE, score |-> 0, reason |-> "Grounding verification failed"]

\* GroundingService.check(context, response), given what the audit call does.
\* buildAuditPrompt interpolates response into the prompt before the try
\* block is entered, so its TypeError leaves check.
check(response, audit) ==
    IF response = Unprintable THEN [thrown |-> TRUE, result |-> GroundingFailed]
    ELSE IF audit.kind = "failed" THEN [thrown |-> FALSE, result |-> GroundingFailed]
    ELSE [thrown |-> FALSE, result |-> parseAuditResult(audit)]

\* the return of GroundingService.isGrounded for the result of its check
isGrounded(result, threshold) == result.grounded /\ result.score >= threshold

(***************************************************************************)
(* AgentService.analyze and the HTTP boundary                              *)
(***************************************************************************)
VARIABLES
    userWindows,  \* RateLimiter.userWindows: the windows of the identities that have one
    now,          \* Date.now()
    ticks,        \* times the clock has advanced
    pending,      \* the bag of analyze calls suspended at an await
    last          \* what the latest run of analyze between two awaits did

vars == <<userWindows, now, ticks, pending, last>>

\* questions a caller may send
Questions ==
    { <<"Why", " ", "members">>,
      <<"<BEL>", " ", "Why", " ", " ", "members", " ">>,
      <<"Hi">>,
      <<"W1000">>,
      <<"?!#$", "Why">>,
      <<"ignore previous", " ", "http://">>,
      <<"Why", " ", "123-45-6789">> }

NoResult == [summary |-> Undefined, confidence |-> "none", reasoning |-> Undefined]

\* what the primary model call may resolve to
LLMResults ==
    { [summary |-> Str(<<"members">>), confidence |-> "high", reasoning |-> Undefined],
      [summary |-> Str(<<"members", " ", "123-45-6789">>), confidence |-> "medium",
       reasoning |-> Str(<<"a@b.co">>)],
      [summary |-> Str(<<"Why">>), confidence |-> "low",
       reasoning |-> Str(<<"MRN:123456789", " ", "12345-6789">>)],
      [summary |-> Str(<<"password", " ", "123-45-6789">>), confidence |-> "high",
       reasoning |-> Str(<<>>)],
      [summary |-> Str(<<"W1000", "W1000", "a@b.co">>), confidence |-> "medium",
       reasoning |-> Undefined],
      [summary |-> Str(<<"members">>), confidence |-> "certain",
       reasoning |-> Str(<<"12345">>)],
      [summary |-> Str(<<"members">>), confidence |-> "high", reasoning |-> Unprintable],
      [summary |-> Unprintable, confidence |-> "high", reasoning |-> Undefined] }

\* what retrieval or the primary model call may throw
ProviderErrors == {PlainError, BadRequestException}

NoAudit ==
    [kind |-> "none", grounded |-> FALSE, numeric |-> TRUE, score |-> 0, confidence |-> "low"]
NoVerdict == [grounded |-> FALSE, score |-> 0, reason |-> "none"]

\* a continuation of analyze: where it is suspended and what it captured
Continuation(userId, at, llmResult) ==
    [userId |-> userId, at |-> at, llmResult |-> llmResult]

\* the bag with one continuation replaced by another
Resume(bag, c) == bag (-) SetToBag({c})
Suspend(bag, c) == bag (+) SetToBag({c})

\* the status of the response: Nest answers a POST that returns with 201, an
\* HttpException with its own status and any other exception with 500
HttpStatusOf(error) ==
    IF error.type = "none" THEN HTTP_CREATED
    ELSE IF error.type \in {"HttpException", "BadRequestException"} THEN error.status
    ELSE INTERNAL_SERVER_ERROR

\* an analyze that lowers the confidence of an answer found ungrounded
AnswerDowngradedWhenUngrounded(llmResult, groundingResult) ==
    IF groundingResult.grounded THEN llmResult
    ELSE [llmResult EXCEPT !.confidence = "low"]

\* the llmResult handed to postProcess after the grounding check: the
\* grounding result is only counted and logged
AnswerAfterGrounding(llmResult, groundingResult) == llmResult

\* the text analyze hands to grounding.check: the summary of the result of
\* the model call, as the model call resolved with it
AuditedText(llmResult) == llmResult.summary

\* the catch block of analyze: handleError, then the fallback Insight
CatchBlock(rl, error, userId) ==
    LET h == handleError(rl, error, userId)
    IN  [rl |-> h.rl,
         outcome |-> IF h.thrown THEN "raised" ELSE "returned",
         error |-> IF h.thrown THEN error ELSE NoError,
         caught |-> error.type,
         insight |-> IF h.thrown THEN NoResult ELSE h.response]

\* analyze from the return of the grounding check to its end
AnalyzeTail(rl, llmResult, groundingResult, userId) ==
    LET post == postProcess(rl, AnswerAfterGrounding(llmResult, groundingResult), userId)
    IN  IF post.thrown THEN CatchBlock(post.rl, TypeError, userId)
        ELSE [rl |-> post.rl, outcome |-> "returned", error |-> NoError,
              caught |-> "none", insight |-> post.response]

\* the record of a run of analyze between two awaits
Observed(userId, step, stage, settled, llmResult, audit, verdict, checkThrew, postThrew) ==
    [userId |-> userId, step |-> step, stage |-> stage,
     outcome |-> settled.outcome,
     error |-> settled.error.type,
     caught |-> settled.caught,
     status |-> IF settled.outcome = "pending" THEN 0 ELSE HttpStatusOf(settled.error),
     insight |-> settled.insight,
     llmResult |-> llmResult, audit |-> audit, verdict |-> verdict,
     checkThrew |-> checkThrew, postThrew |-> postThrew,
     released |-> settled.rl.completeCalls]

Init ==
    /\ userWindows = [u \in {} |-> NewWindow(0)]
    /\ now = 0
    /\ ticks = 0
    /\ pending = EmptyBag
    /\ last = [userId |-> "", step |-> "none", stage |-> "", outcome |-> "none",
               error |-> "none", caught |-> "none", status |-> 0, insight |-> NoResult,
               llmResult |-> NoResult, audit |-> NoAudit, verdict |-> NoVerdict,
               checkThrew |-> FALSE, postThrew |-> FALSE, released |-> 0]

\* analyze up to its first await: preProcess, and the throw on a rejection
AnalyzeStart(userId, question) ==
    LET pre == preProcess(Limiter(userWindows), question, userId, now)
        settled == [rl |-> pre.rl,
                    outcome |-> IF pre.allowed THEN "pending" ELSE "raised",
                    error |-> IF pre.thrown # NoError THEN pre.thrown
                              ELSE IF pre.allowed THEN NoError ELSE PlainError,
                    caught |-> "none", insight |-> NoResult]
    IN  /\ userWindows' = pre.rl.userWindows
        /\ pending' = IF pre.allowed
                      THEN Suspend(pending, Continuation(userId, "search", NoResult))
                      ELSE pending
        /\ last' = Observed(userId, "preProcess", pre.stage, settled,
                            NoResult, NoAudit, NoVerdict, FALSE, FALSE)
        /\ UNCHANGED <<now, ticks>>

\* both searches resolve: the context is built and the model is called
SearchResolves(c) ==
    /\ c.at = "search"
    /\ pending' = Suspend(Resume(pending, c), [c EXCEPT !.at = "llm"])
    /\ UNCHANGED <<userWindows, now, ticks, last>>

\* a search or the model call rejects: the catch block
ProviderThrows(c, error) ==
    LET settled == CatchBlock(Limiter(userWindows), error, c.userId)
    IN  /\ c.at \in {"search", "llm"}
        /\ pending' = Resume(pending, c)
        /\ userWindows' = settled.rl.userWindows
        /\ last' = Observed(c.userId, c.at, "", settled,
                            NoResult, NoAudit, NoVerdict, FALSE, FALSE)
        /\ UNCHANGED <<now, ticks>>

\* the model call resolves with a summary that buildAuditPrompt can
\* interpolate: check goes on to its audit call
LlmResolves(c, llmResult) ==
    /\ c.at = "llm"
    /\ ~check(AuditedText(llmResult), NoAudit).thrown
    /\ pending' = Suspend(Resume(pending, c), [c EXCEPT !.at = "audit", !.llmResult = llmResult])
    /\ UNCHANGED <<userWindows, now, ticks, last>>

\* the model call resolves with a summary that makes check throw: the catch block
LlmResolvesCheckThrows(c, llmResult) ==
    LET settled == CatchBlock(Limiter(userWindows), TypeError, c.userId)
    IN  /\ c.at = "llm"
        /\ check(AuditedText(llmResult), NoAudit).thrown
        /\ pending' = Resume(pending, c)
        /\ userWindows' = settled.rl.userWindows
        /\ last' = Observed(c.userId, "llm", "", settled,
                            llmResult, NoAudit, NoVerdict, TRUE, FALSE)
        /\ UNCHANGED <<now, ticks>>

\* the audit call settles: check returns, then postProcess and the return
AuditSettles(c, audit) ==
    LET groundingResult == check(AuditedText(c.llmResult), audit).result
        settled == AnalyzeTail(Limiter(userWindows), c.llmResult, groundingResult, c.userId)
    IN  /\ c.at = "audit"
        /\ pending' = Resume(pending, c)
        /\ userWindows' = settled.rl.userWindows
        /\ last' = Observed(c.userId, "audit", "", settled, c.llmResult, audit,
                            groundingResult, FALSE,
                            postProcess(Limiter(userWindows), c.llmResult, c.userId).thrown)
        /\ UNCHANGED <<now, ticks>>

\* the clock advances by d milliseconds
Tick(d) ==
    /\ now' = now + d
    /\ ticks' = ticks + 1
    /\ UNCHANGED <<userWindows, pending, last>>

\* the admissions counted in the hour window of an identity
Admitted(userId) ==
    IF userId \in DOMAIN userWindows THEN userWindows[userId].hourCount ELSE 0

\* the suspended calls of an identity
PendingOf(userId) ==
    BagCardinality([c \in {x \in BagToSet(pending) : x.userId = userId} |-> pending[c]])

\* Spec: every input of the pipeline, few calls at a time
Next ==
    \/ \E userId \in Users, question \in Questions :
          /\ BagCardinality(pending) < MaxPending
          /\ Admitted(userId) < MaxAdmitted
          /\ AnalyzeStart(userId, question)
    \/ \E c \in BagToSet(pending) : SearchResolves(c)
    \/ \E c \in BagToSet(pending), error \in ProviderErrors : ProviderThrows(c, error)
    \/ \E c \in BagToSet(pending), llmResult \in LLMResults : LlmResolves(c, llmResult)
    \/ \E c \in BagToSet(pending), llmResult \in LLMResults : LlmResolvesCheckThrows(c, llmResult)
    \/ \E c \in BagToSet(pending), audit \in AuditOutcomes : AuditSettles(c, audit)
    \/ \E d \in {MinuteMs, HourMs} : ticks < MaxTicks /\ Tick(d)

Spec == Init /\ [][Next]_vars

\* SpecLoad: many calls at a time, of one question, one answer and one error
LoadQuestions == {<<"Why", " ", "members">>}
LoadResults ==
    {[summary |-> Str(<<"members">>), confidence |-> "high", reasoning |-> Undefined]}
LoadAudits == {a \in AuditOutcomes : a.kind = "failed"}

NextLoad ==
    \/ \E userId \in Users, question \in LoadQuestions :
          /\ BagCardinality(pending) < MaxLoad
          /\ AnalyzeStart(userId, question)
    \/ \E c \in BagToSet(pending) : SearchResolves(c)
    \/ \E c \in BagToSet(pending) : ProviderThrows(c, PlainError)
    \/ \E c \in BagToSet(pending), llmResult \in LoadResults : LlmResolves(c, llmResult)
    \/ \E c \in BagToSet(pending), audit \in LoadAudits : AuditSettles(c, audit)

SpecLoad == Init /\ [][NextLoad]_vars

\* the periodic sweep the constructor schedules, run between two runs of analyze
IdleSweep ==
    /\ userWindows' = cleanup(userWindows, now)
    /\ UNCHANGED <<now, ticks, pending, last>>

\* SpecIdle: an identity makes its requests and then goes idle: calls start
\* only before the clock first advances, those in flight may settle at any
\* time, the clock advances an hour at a time and the sweep runs; the timer
\* of the sweep and the clock are never held up for ever
NextIdle ==
    \/ \E userId \in Users, question \in Questions :
          /\ ticks = 0
          /\ BagCardinality(pending) < MaxPending
          /\ Admitted(userId) < MaxAdmitted
          /\ AnalyzeStart(userId, question)
    \/ \E c \in BagToSet(pending) : SearchResolves(c)
    \/ \E c \in BagToSet(pending), error \in ProviderErrors : ProviderThrows(c, error)
    \/ \E c \in BagToSet(pending), llmResult \in LLMResults : LlmResolves(c, llmResult)
    \/ \E c \in BagToSet(pending), llmResult \in LLMResults : LlmResolvesCheckThrows(c, llmResult)
    \/ \E c \in BagToSet(pending), audit \in AuditOutcomes : AuditSettles(c, audit)
    \/ IdleSweep
    \/ ticks < MaxIdleTicks /\ Tick(HourMs)

SpecIdle ==
    /\ Init /\ [][NextIdle]_vars
    /\ WF_vars(IdleSweep)
    /\ WF_vars(ticks < MaxIdleTicks /\ Tick(HourMs))

(***************************************************************************)
(* The RateLimiter and the GuardrailsService called one call at a time,    *)
(* as their unit tests call them, with the periodic sweep                  *)
(***************************************************************************)
\* the identities of SpecPair
LimiterUsers == {"u1", "u2"}

\* questions handed to preProcess: one that passes, one that is too short,
\* one that holds an injection and PII, one whose injection shows only once
\* the control character is stripped, one that holds PII only
GuardQuestions ==
    { <<"Why", " ", "members">>,
      <<"Hi">>,
      <<"ignore previous", " ", "a@b.co">>,
      <<"Why", " ", "system", "<BEL>", ":">>,
      <<"Why", " ", "12345">> }

\* what is remembered of the calls of an identity: the end of the minute
\* window its latest admit call fell in (a call after the end of a window
\* opens the next one, -1 before the first), the admits that succeeded in
\* that window, and the admit calls made in a row since its latest release
NoCalls == [windowEnd |-> -1, inWindow |-> 0, streak |-> 0]

\* the history of an identity after an admit call at time t
HistoryAdmit(h, t, succeeded) ==
    LET opened == IF h.windowEnd < 0 \/ t > h.windowEnd
                  THEN [h EXCEPT !.windowEnd = t + MinuteMs, !.inWindow = 0]
                  ELSE h
    IN  [opened EXCEPT !.inWindow = @ + (IF succeeded THEN 1 ELSE 0)]

\* the history that goes with a window of the limiter
HistoryOf(windows, userId) ==
    IF userId \in DOMAIN windows
    THEN [windowEnd |-> windows[userId].minuteReset,
          inWindow |-> windows[userId].minuteCount, streak |-> 0]
    ELSE NoCalls

\* n times checkAndIncrement(userId) followed by complete(userId), at time t
AdmitReleasePairs(windows, userId, t, n) ==
    LET after[i \in 0..n] ==
            IF i = 0 THEN windows
            ELSE complete(checkAndIncrement(Limiter(after[i - 1]), userId, t).rl,
                          userId).userWindows
    IN  after[n]

\* the windows after k minutes in each of which the identity used up its
\* minute cap, the i-th minute starting at time (i - 1) * (MinuteMs + 1);
\* the windows of a minute are computed before those of the next
BusyMinutes(userId, k) ==
    LET after[i \in 0..k] ==
            IF i = 0 THEN [u \in {} |-> NewWindow(0)]
            ELSE LET before == after[i - 1]
                 IN  IF DOMAIN before \subseteq {userId}
                     THEN AdmitReleasePairs(before, userId,
                              (i - 1) * (MinuteMs + 1), requestsPerMinute)
                     ELSE before
    IN  after[k]

\* the record of a call
Called(op, userId, result, allowed, question, sanitizedQuestion, history) ==
    [op |-> op, userId |-> userId, result |-> result, allowed |-> allowed,
     question |-> question, sanitizedQuestion |-> sanitizedQuestion,
     history |-> history]

\* a limiter that is new, or one whose first identity has been busy for
\* MaxBusyMinutes minutes of its first hour
InitLimiter ==
    /\ \E k \in {0, MaxBusyMinutes} :
          /\ userWindows = BusyMinutes("u1", k)
          /\ now = k * (MinuteMs + 1)
          /\ last = Called("none", "", "none", FALSE, <<>>, <<>>,
                       [u \in LimiterUsers |-> HistoryOf(userWindows, u)])
    /\ ticks = 0
    /\ pending = EmptyBag

\* a limiter that is new
InitPair ==
    /\ userWindows = [u \in {} |-> NewWindow(0)]
    /\ now = 0
    /\ last = Called("none", "", "none", FALSE, <<>>, <<>>,
                  [u \in LimiterUsers |-> NoCalls])
    /\ ticks = 0
    /\ pending = EmptyBag

\* rateLimiter.checkAndIncrement(userId)
Admit(userId) ==
    LET r == checkAndIncrement(Limiter(userWindows), userId, now)
    IN  /\ userWindows' = r.rl.userWindows
        /\ last' = Called("admit", userId,
                      IF r.thrown = "none" THEN "ok" ELSE r.thrown, r.thrown = "none",
                      <<>>, <<>>,
                      [last.history EXCEPT ![userId] =
                          [HistoryAdmit(@, now, r.thrown = "none")
                              EXCEPT !.streak = @ + 1]])
        /\ UNCHANGED <<now, ticks, pending>>

\* rateLimiter.complete(userId)
Release(userId) ==
    /\ userWindows' = complete(Limiter(userWindows), userId).userWindows
    /\ last' = Called("release", userId, "ok", FALSE, <<>>, <<>>,
                  [last.history EXCEPT ![userId].streak = 0])
    /\ UNCHANGED <<now, ticks, pending>>

\* guardrails.preProcess(question, userId)
PreProcessCall(userId, question) ==
    LET p == preProcess(Limiter(userWindows), question, userId, now)
        admitted == p.stage \notin {"minute", "hour", "concurrent"}
    IN  /\ userWindows' = p.rl.userWindows
        /\ last' = Called("preProcess", userId, p.stage, p.allowed, question,
                      p.sanitizedQuestion,
                      [last.history EXCEPT ![userId] =
                          [HistoryAdmit(@, now, admitted) EXCEPT !.streak = 0]])
        /\ UNCHANGED <<now, ticks, pending>>

\* guardrails.postProcess(response, userId) of a call that holds a slot
PostProcessCall(userId, response) ==
    /\ ConcurrentOf(userWindows, userId) > 0
    /\ userWindows' = postProcess(Limiter(userWindows), response, userId).rl.userWindows
    /\ last' = Called("postProcess", userId, "ok", FALSE, <<>>, <<>>,
                  [last.history EXCEPT ![userId].streak = 0])
    /\ UNCHANGED <<now, ticks, pending>>

\* the interval timer of the constructor fires: cleanup()
Sweep ==
    /\ userWindows' = cleanup(userWindows, now)
    /\ last' = Called("sweep", "", "ok", FALSE, <<>>, <<>>,
                  [u \in LimiterUsers |-> [last.history[u] EXCEPT !.streak = 0]])
    /\ UNCHANGED <<now, ticks, pending>>

\* the clock advances by d milliseconds between two calls
Advance(d) ==
    /\ now' = now + d
    /\ ticks' = ticks + 1
    /\ last' = Called("advance", "", "ok", FALSE, <<>>, <<>>,
                  [u \in LimiterUsers |-> [last.history[u] EXCEPT !.streak = 0]])
    /\ UNCHANGED <<userWindows, pending>>

\* SpecLimiter: the RateLimiter called by one identity, up to all three caps
NextLimiter ==
    \/ \E userId \in Users :
          last.history[userId].streak < MaxCalls /\ Admit(userId)
    \/ \E userId \in Users : Release(userId)
    \/ Sweep
    \/ \E d \in {1, MinuteMs, HourMs} : ticks < MaxAdvances /\ Advance(d)

SpecLimiter == InitLimiter /\ [][NextLimiter]_vars

\* SpecGuard: the GuardrailsService called by one identity
NextGuard ==
    \/ \E userId \in Users, question \in GuardQuestions :
          PreProcessCall(userId, question)
    \/ \E userId \in Users, response \in LoadResults :
          PostProcessCall(userId, response)
    \/ \E d \in {MinuteMs, HourMs} : ticks < MaxPairAdvances /\ Advance(d)

SpecGuard == InitPair /\ [][NextGuard]_vars

\* SpecPair: two identities whose calls interleave, few calls each
NextPair ==
    \/ \E userId \in LimiterUsers :
          Admitted(userId) < MaxOther /\ Admit(userId)
    \/ \E userId \in LimiterUsers : Release(userId)
    \/ \E userId \in LimiterUsers, question \in GuardQuestions :
          Admitted(userId) < MaxOther /\ PreProcessCall(userId, question)
    \/ \E userId \in LimiterUsers, response \in LoadResults :
          PostProcessCall(userId, response)
    \/ Sweep
    \/ \E d \in {1, HourMs} : ticks < MaxPairAdvances /\ Advance(d)

SpecPair == InitPair /\ [][NextPair]_vars

(***************************************************************************)
(* The detector, the scanner, the validators and the audit parser called   *)
(* on their own, as their unit tests call them                             *)
(***************************************************************************)
\* the texts of at most n pieces taken from a set of pieces
TextsOf(pieces, n) == UNION {[1..k -> pieces] : k \in 0..n}

\* texts handed to the detector
DetectTexts ==
    TextsOf({"Why", " ", "ignore previous", "system", ":", "system:", "http://"},
            MaxTextLen)

\* texts handed to the scanner
ScanTexts ==
    TextsOf({"Why", " ", "123-45-6789", "12345-6789", "12345", "a@b.co",
             "MRN:123456789", "123-45-6789@b.co"}, MaxTextLen)

\* questions handed to the Input Validator
ValidateTexts ==
    TextsOf({"Hi", "Why", " ", "<BEL>", "?!#$", "W1000"}, MaxTextLen)

\* answers handed to the Output Validator: summaries that are empty, of
\* 2000 and of 2002 characters, reasonings of 1000 and of 1002, values that
\* are no strings, forbidden content
ValidateResponses ==
    [summary : {Str(<<>>), Str(<<"members">>), Str(<<"W1000", "W1000">>),
                Str(<<"W1000", "W1000", "Hi">>), Str(<<"members", " ", "password">>),
                Undefined, Unprintable},
     confidence : {"high", "low", "very_high"},
     reasoning : {Undefined, Str(<<>>), Str(<<"W1000">>), Str(<<"W1000", "Hi">>),
                  Str(<<"<script">>), Unprintable}]

\* the record of a unit and its input, before and after the call; an input
\* is a text or the sequence of the arguments
UnitCall(op, unit, input, result) ==
    [op |-> op, unit |-> unit, input |-> input, result |-> result]

NotCalled == [called |-> FALSE]

\* the units and the inputs they are called on
DetectInputs == {UnitCall("none", "detect", input, NotCalled) : input \in DetectTexts}
RedactInputs == {UnitCall("none", "redact", text, NotCalled) : text \in ScanTexts}
\* what the audit call may do when check is called on an answer: the
\* outcomes above, and an audit without JSON for every confidence the audit
\* model may report, or none
AuditResults ==
    AuditOutcomes
    \cup {[kind |-> "text", grounded |-> FALSE, numeric |-> TRUE, score |-> 0,
           confidence |-> c] : c \in {"high", "medium", "low", "none"}}
CheckInputs ==
    {UnitCall("none", "check", <<response, audit>>, NotCalled) :
        response \in {Str(<<"members">>), Str(<<"password", " ", "123-45-6789">>)},
        audit \in AuditResults}
ScanInputs == {UnitCall("none", "scan", text, NotCalled) : text \in ScanTexts}
QuestionInputs ==
    {UnitCall("none", "question", question, NotCalled) : question \in ValidateTexts}
ValidateInputs ==
    {UnitCall("none", "validate", <<response>>, NotCalled) : response \in ValidateResponses}

InitUnits ==
    /\ userWindows = [u \in {} |-> NewWindow(0)]
    /\ now = 0
    /\ ticks = 0
    /\ pending = EmptyBag
    /\ \/ last \in DetectInputs
       \/ last \in RedactInputs
       \/ last \in ValidateInputs
       \/ last \in QuestionInputs
       \/ last \in ScanInputs
       \/ last \in CheckInputs

\* injectionDetector.detect(input)
Detect ==
    /\ last.op = "none" /\ last.unit = "detect"
    /\ last' = UnitCall("called", "detect", last.input, detect(last.input))
    /\ UNCHANGED <<userWindows, now, ticks, pending>>

\* scanner.redactResponse(response), and again on what it returned
Redact ==
    /\ last.op = "none" /\ last.unit = "redact"
    /\ last' = UnitCall("called", "redact", last.input,
                        [redacted |-> redactResponse(last.input),
                         again |-> redactResponse(redactResponse(last.input))])
    /\ UNCHANGED <<userWindows, now, ticks, pending>>

\* outputValidator.validate(response)
ValidateOutput ==
    /\ last.op = "none" /\ last.unit = "validate"
    /\ last' = UnitCall("called", "validate", last.input, validate(last.input[1]))
    /\ UNCHANGED <<userWindows, now, ticks, pending>>

\* inputValidator.validate(question)
ValidateQuestion ==
    /\ last.op = "none" /\ last.unit = "question"
    /\ last' = UnitCall("called", "question", last.input, validateQuestion(last.input))
    /\ UNCHANGED <<userWindows, now, ticks, pending>>

\* scanner.scan(text)
Scan ==
    /\ last.op = "none" /\ last.unit = "scan"
    /\ last' = UnitCall("called", "scan", last.input, scan(last.input))
    /\ UNCHANGED <<userWindows, now, ticks, pending>>

\* grounding.check(context, response), with what its audit call does
Check ==
    /\ last.op = "none" /\ last.unit = "check"
    /\ last' = UnitCall("called", "check", last.input, check(last.input[1], last.input[2]))
    /\ UNCHANGED <<userWindows, now, ticks, pending>>

\* SpecUnits: every unit called once on each of its inputs
NextUnits ==
    \/ Detect
    \/ Redact
    \/ ValidateOutput
    \/ ValidateQuestion
    \/ Scan
    \/ Check

SpecUnits == InitUnits /\ [][NextUnits]_vars

(***************************************************************************)
(* Claims                                                                  *)
(***************************************************************************)
\* the latest run of analyze ended the call: it returned or it raised
Settled == last.outcome \in {"returned", "raised"}

\* the latest run of analyze was preProcess and it rejected at the given stages
RejectedAt(obs, stages) == obs.step = "preProcess" /\ obs.stage \in stages

\* the three counters of an identity, zero when it has no window
Counters(windows, userId) ==
    IF userId \in DOMAIN windows
    THEN <<windows[userId].minuteCount, windows[userId].hourCount,
           windows[userId].concurrent>>
    ELSE <<0, 0, 0>>

\* C1: for every identity, the number of its calls that preProcess admitted
\* and that have not yet reached postProcess or handleError never exceeds
\* the concurrency cap.
C1_InFlightWithinCap == \A u \in Users : PendingOf(u) <= maxConcurrent

\* C2: a call that input validation, injection detection or the PII block
\* rejects leaves the concurrency counter of its identity as it found it.
C2_RejectionReleasesSlot ==
    [][RejectedAt(last', {"input", "injection", "pii"})
        => ConcurrentOf(userWindows', last'.userId)
             = ConcurrentOf(userWindows, last'.userId)]_vars

\* C3: a call that preProcess allowed has released the limiter exactly once
\* when it ends, on every exit path.
C3_ReleasedExactlyOnce ==
    (last.step \in {"search", "llm", "audit"} /\ Settled) => last.released = 1

\* C4: a call that the rate limiter refuses releases nothing and leaves the
\* minute, hour and concurrency counters of its identity unchanged.
C4_RejectedAdmitChangesNothing ==
    [][RejectedAt(last', {"minute", "hour", "concurrent"})
        => /\ last'.released = 0
           /\ Counters(userWindows', last'.userId) = Counters(userWindows, last'.userId)]_vars

\* no PII pattern matches the value
NoPII(v) == IsString(v) => \A k \in 1..Len(PII_PATTERNS) : ~PIITest(k, v.text)

\* some PII pattern matches the value
HasPII(v) == IsString(v) /\ \E k \in 1..Len(PII_PATTERNS) : PIITest(k, v.text)

\* C5: no PII pattern matches the summary or the reasoning of an Insight
\* that analyze returns, whatever answer was handed to postProcess.
C5_NoPIIInAnswer ==
    last.outcome = "returned"
        => NoPII(last.insight.summary) /\ NoPII(last.insight.reasoning)

\* C5 witness: an answer with PII in summary and reasoning passed validation
\* and was returned redacted
C5_Witness ==
    /\ last.step = "audit" /\ last.outcome = "returned"
    /\ HasPII(last.llmResult.summary) /\ HasPII(last.llmResult.reasoning)
    /\ last.insight.confidence = last.llmResult.confidence
    /\ last.insight # getFallbackResponse

\* the Output Validator rejects the answer: a field of the wrong type or
\* length, a confidence outside the enum, or forbidden content
Forbidden(v) == IsString(v) /\ \E j \in 1..Len(v.text) : ForbiddenHits(v.text[j]) # {}

OutputRejected(r) ==
    \/ ~IsString(r.summary)
    \/ Length(r.summary.text) < 1
    \/ Length(r.summary.text) > MAX_RESPONSE_LENGTH
    \/ r.confidence \notin Confidences
    \/ r.reasoning.type = "object"
    \/ IsString(r.reasoning) /\ Length(r.reasoning.text) > MaxReasoningLength
    \/ Forbidden(r.summary)
    \/ Forbidden(r.reasoning)

\* C6: a call whose answer reached postProcess always returns: with exactly
\* the fallback answer when the Output Validator rejects the answer, and
\* with the answer, PII redacted, otherwise.
C6_FallbackOnInvalidOutput ==
    last.step = "audit" =>
        /\ last.outcome = "returned"
        /\ last.status = HTTP_CREATED
        /\ OutputRejected(last.llmResult) => last.insight = getFallbackResponse
        /\ ~OutputRejected(last.llmResult) =>
              /\ last.insight.summary = Str(scan(last.llmResult.summary.text).redacted)
              /\ last.insight.confidence = last.llmResult.confidence
              /\ IsString(last.llmResult.reasoning) =>
                    last.insight.reasoning = Str(scan(last.llmResult.reasoning.text).redacted)
              /\ ~IsString(last.llmResult.reasoning) =>
                    last.insight.reasoning = last.llmResult.reasoning

\* C6 witness: postProcess returned the fallback for an answer with
\* forbidden content
C6_Witness ==
    /\ last.step = "audit" /\ ~last.postThrew
    /\ Forbidden(last.llmResult.summary)
    /\ last.insight = getFallbackResponse

\* C7: a question that preProcess rejects reaches the HTTP boundary as a
\* client error.
C7_RejectionIsClientError ==
    (last.step = "preProcess" /\ last.outcome = "raised")
        => (last.status >= 400 /\ last.status <= 499)

\* C8: handleError releases the limiter; it rethrows a BadRequestException
\* and returns the fallback answer for every other error, so analyze
\* returns the fallback Insight.
C8_HandleErrorFallback ==
    last.caught # "none" =>
        /\ last.released >= 1
        /\ last.caught # "BadRequestException" =>
              /\ last.outcome = "returned"
              /\ last.insight = getFallbackResponse
              /\ last.status = HTTP_CREATED
        /\ last.caught = "BadRequestException" =>
              /\ last.outcome = "raised"
              /\ last.status = BAD_REQUEST

\* C8 witness: the model call threw a provider error and analyze returned
\* the fallback
C8_Witness ==
    /\ last.step = "llm" /\ last.caught = "Error"
    /\ last.outcome = "returned" /\ last.insight = getFallbackResponse
    /\ last.released = 1

\* thresholds of isGrounded, in tenths
Thresholds == 0..10

\* C9: check never throws, and when the audit call fails it returns the
\* safe default, which isGrounded reports as not grounded at every threshold.
C9_CheckNeverThrows ==
    /\ ~last.checkThrew
    /\ last.audit.kind = "failed" =>
          /\ last.verdict = GroundingFailed
          /\ \A th \in Thresholds : ~isGrounded(last.verdict, th)

\* C10: the answer analyze returns is the one it would return for any other
\* outcome of the grounding audit.
C10_AnswerIgnoresGrounding ==
    last.step = "audit" =>
        \A audit \in AuditOutcomes :
            AnalyzeTail(Limiter(userWindows), last.llmResult,
                        check(last.llmResult.summary, audit).result,
                        last.userId).insight = last.insight

\* C10 witness: an answer of high confidence that the audit found ungrounded
\* was returned as it was
C10_Witness ==
    /\ last.step = "audit" /\ last.audit.kind = "json" /\ ~last.verdict.grounded
    /\ last.insight.confidence = "high"
    /\ last.insight.summary = last.llmResult.summary

\* the window an admit call of the identity at the present time tests: a
\* new one for an identity without a window, expired counts reset
TestedWindow(userId) ==
    ResetExpired(IF userId \in DOMAIN userWindows
                 THEN userWindows[userId] ELSE NewWindow(now), now)

\* the window has reached one of the three caps
AtSomeCap(w) ==
    \/ w.minuteCount >= requestsPerMinute
    \/ w.hourCount >= requestsPerHour
    \/ w.concurrent >= maxConcurrent

\* the stage of preProcess that decides on a question the limiter admits
DecidingStage(question) ==
    IF ~validateQuestion(question).valid THEN "input"
    ELSE IF detect(sanitize(question)).blocked THEN "injection"
    ELSE IF scan(sanitize(question)).containsPII THEN "pii"
    ELSE "allowed"

\* C11: preProcess decides by the first stage that fails, in the order
\* limiter, input validation, injection detection, PII scan, the last two
\* on the sanitized text; it allows exactly when all four pass, returns the
\* sanitized question then, and the slot it took is still held.
C11_PreProcessStageOrder ==
    [][last'.op = "preProcess" =>
        LET u == last'.userId
            w == TestedWindow(u)
        IN  /\ AtSomeCap(w) <=> last'.result \in {"minute", "hour", "concurrent"}
            /\ ~AtSomeCap(w) => last'.result = DecidingStage(last'.question)
            /\ last'.allowed <=> (~AtSomeCap(w) /\ DecidingStage(last'.question) = "allowed")
            /\ last'.allowed =>
                  /\ last'.sanitizedQuestion = sanitize(last'.question)
                  /\ ConcurrentOf(userWindows', u) = w.concurrent + 1]_vars

\* C11 witness: a question with an injection that only the sanitized text
\* shows was rejected at the injection stage
C11_Witness ==
    /\ last.op = "preProcess" /\ last.result = "injection"
    /\ ~detect(last.question).blocked

C13_MinuteCapPerWindow ==
    [][/\ \A u \in Users : last'.history[u].inWindow <= requestsPerMinute
       /\ (/\ last'.op = "admit"
           /\ ConcurrentOf(userWindows, last'.userId) = 0
           /\ Admitted(last'.userId) < requestsPerHour - requestsPerMinute
           /\ ~(now > last.history[last'.userId].windowEnd))
          => /\ last'.result = "ok"
                  <=> last.history[last'.userId].inWindow < requestsPerMinute
             /\ last'.result # "ok" => last'.result = "minute"]_vars

\* C14: complete changes nothing but the concurrency counter of its
\* identity, which it lowers by one and never below zero; it creates no
\* window; an admit that succeeds in an unexpired minute window adds one to
\* the minute count whatever was released before.
C14_ReleaseOnlyLowersConcurrency ==
    [][/\ last'.op = "release" =>
            userWindows' =
                IF last'.userId \in DOMAIN userWindows
                THEN [userWindows EXCEPT ![last'.userId].concurrent =
                                            IF @ > 0 THEN @ - 1 ELSE 0]
                ELSE userWindows
       /\ (/\ last'.op = "admit" /\ last'.result = "ok"
           /\ last'.userId \in DOMAIN userWindows
           /\ ~(now > userWindows[last'.userId].minuteReset))
          => userWindows'[last'.userId].minuteCount
                = userWindows[last'.userId].minuteCount + 1]_vars

\* C14 witness: a release of an identity whose counter was already zero and
\* whose minute count is kept
C14_Witness ==
    /\ last.op = "release" /\ last.userId \in DOMAIN userWindows
    /\ userWindows[last.userId].concurrent = 0
    /\ userWindows[last.userId].minuteCount = requestsPerMinute

\* C15: a refused admit names the minute limit if it is reached, else the
\* hour limit if it is reached, else the concurrency limit; a successful
\* admit adds exactly one to each of the three counters.
C15_CapPriority ==
    [][last'.op = "admit" =>
        LET u == last'.userId
            w == TestedWindow(u)
        IN  /\ last'.result =
                 (IF w.minuteCount >= requestsPerMinute THEN "minute"
                  ELSE IF w.hourCount >= requestsPerHour THEN "hour"
                  ELSE IF w.concurrent >= maxConcurrent THEN "concurrent"
                  ELSE "ok")
            /\ userWindows'[u] =
                 (IF last'.result = "ok"
                  THEN [w EXCEPT !.minuteCount = @ + 1, !.hourCount = @ + 1,
                                 !.concurrent = @ + 1]
                  ELSE w)]_vars

\* C15 witness: an admit refused for the minute limit while the hour limit
\* and the concurrency limit were reached too
C15_Witness ==
    /\ last.op = "admit" /\ last.result = "minute"
    /\ userWindows[last.userId].hourCount >= requestsPerHour
    /\ userWindows[last.userId].concurrent >= maxConcurrent

\* C16: the sweep deletes only windows whose minute window and hour window
\* have both expired and whose concurrency is zero.
C16_SweepDeletesOnlyExpired ==
    [][last'.op = "sweep" =>
        \A u \in DOMAIN userWindows \ DOMAIN userWindows' :
            /\ now > userWindows[u].minuteReset
            /\ now > userWindows[u].hourReset
            /\ userWindows[u].concurrent = 0]_vars

Idle(userId) == PendingOf(userId) = 0

\* C17: the entry of an identity with no request in flight is deleted in
\* the end, whatever requests the identity made before: once its hour window
\* has expired, the sweep deletes it.
C17_IdleEntryDeleted ==
    \A u \in Users :
        (/\ Idle(u)
         /\ u \in DOMAIN userWindows
         /\ now > userWindows[u].hourReset) => u \notin DOMAIN cleanup(userWindows, now)

\* C19: the text handed to the Grounding Verifier is the answer as the
\* Output Validator accepted it: of every call whose audit is in flight the
\* answer passes output validation and the audited text is its validated
\* summary.
C19_AuditOnValidatedAnswer ==
    \A c \in BagToSet(pending) :
        c.at = "audit" =>
            /\ ~OutputRejected(c.llmResult)
            /\ AuditedText(c.llmResult) = validate(c.llmResult).validated.summary

\* C20: every verdict that check returns has a score between 0 and 1
\* inclusive, whatever the audit call returned.
C20_ScoreInUnitInterval ==
    (last.step = "audit" /\ ~last.checkThrew) => last.verdict.score \in 0..MaxScore

\* the rules of INJECTION_PATTERNS (by position) that match a text
RulesMatching(input) ==
    {i \in 1..Len(INJECTION_PATTERNS) :
        \/ \E j \in 1..Len(input) : i \in InjectionHits(input[j])
        \/ i \in InjectionSpans(input)}

\* C21: detect blocks a text exactly when some rule matches it and reports
\* the category of the earliest matching rule in declaration order; a text
\* matching an instruction-override rule and the URL rule is attributed to
\* instruction override.
C21_EarliestRuleWins ==
    (last.op = "called" /\ last.unit = "detect") =>
        LET hits == RulesMatching(last.input)
        IN  /\ last.result.blocked <=> hits # {}
            /\ hits # {} =>
                  /\ \A i \in hits : last.result.pattern <= i
                  /\ last.result.pattern \in hits
                  /\ last.result.reason = INJECTION_PATTERNS[last.result.pattern]
            /\ (hits \cap 1..3 # {} /\ 22 \in hits) =>
                  last.result.reason = "Instruction override attempt"

\* C21 witness: a text matching an override rule and the URL rule, with the
\* URL first in the text
C21_Witness ==
    /\ (last.op = "called" /\ last.unit = "detect")
    /\ {1, 22} \subseteq RulesMatching(last.input)
    /\ last.input[1] = "http://"
    /\ last.result.reason = "Instruction override attempt"

\* C22: redaction is idempotent: redacting a redacted text gives it back
\* unchanged, and no PII pattern matches a redacted text.
C22_RedactIdempotent ==
    (last.op = "called" /\ last.unit = "redact") =>
        /\ last.result.again = last.result.redacted
        /\ \A k \in 1..Len(PII_PATTERNS) : ~PIITest(k, last.result.redacted)

\* C22 witness: a text of which two categories were replaced and a part
\* was left by the pattern that matched around it
C22_Witness ==
    /\ last.op = "called" /\ last.unit = "redact"
    /\ last.input = <<"123-45-6789@b.co", " ", "12345">>
    /\ last.result.redacted = <<"[SSN REDACTED]", "@b.co", " ", "[ZIP REDACTED]">>
    /\ last.result.again = last.result.redacted

\* C23: validate answers valid only an answer whose summary is a string
\* of 1 to 2000 characters, whose confidence is high, medium or low, whose
\* reasoning is at most 1000 characters and whose summary and reasoning
\* hold no forbidden content; any other answer yields valid:false with
\* errors and no validated output; a validated answer is within the
\* maximum lengths.
C23_ValidOnlyWhenWellFormed ==
    (last.op = "called" /\ last.unit = "validate") =>
        /\ ~last.result.thrown
        /\ last.result.valid <=> ~OutputRejected(last.input[1])
        /\ ~last.result.valid =>
              /\ last.result.errors # <<>>
              /\ "validated" \notin DOMAIN last.result
        /\ last.result.valid =>
              /\ Length(last.result.validated.summary.text) <= MAX_RESPONSE_LENGTH
              /\ IsString(last.result.validated.reasoning) =>
                    Length(last.result.validated.reasoning.text) <= MaxReasoningLength

\* a text without control characters, without two white spaces in a row
\* and without white space at its ends
IsSanitized(s) ==
    /\ \A i \in 1..Len(s) : s[i] # "<BEL>"
    /\ \A i \in 1..(Len(s) - 1) : ~(s[i] = " " /\ s[i + 1] = " ")
    /\ s # <<>> => (s[1] # " " /\ s[Len(s)] # " ")

\* the messages of the length checks and those of the content checks
LengthMessages == {"Question too short (min 3 chars)", "Question too long (max 500 chars)"}
ContentMessages ==
    {"Question is empty after sanitization", "Question contains too many special characters"}

AdmitResets(minuteRestart(_, _), hourRestart(_, _)) ==
    \A u \in Users :
        (last'.op = "admit" /\ last'.userId = u /\ u \in DOMAIN userWindows) =>
            LET w == userWindows[u]
                after == userWindows'[u]
                counted == IF last'.result = "ok" THEN 1 ELSE 0
            IN  /\ now > w.minuteReset =>
                      /\ after.minuteCount = counted
                      /\ after.minuteReset = minuteRestart(w, now)
                /\ now <= w.minuteReset =>
                      /\ after.minuteCount = w.minuteCount + counted
                      /\ after.minuteReset = w.minuteReset
                /\ now > w.hourReset =>
                      /\ after.hourCount = counted
                      /\ after.hourReset = hourRestart(w, now)
                /\ now <= w.hourReset =>
                      /\ after.hourCount = w.hourCount + counted
                      /\ after.hourReset = w.hourReset

\* C25: on admit a window whose reset time has passed has its counter reset
\* to zero and its reset time advanced by the window length; a window whose
\* reset time has not passed keeps its counter; the minute and the hour
\* window are reset independently.
C25_ResetAdvancesByWindowLength ==
    [][LET minuteRestart(w, t) == w.minuteReset + MinuteMs
           hourRestart(w, t) == w.hourReset + HourMs
       IN  AdmitResets(minuteRestart, hourRestart)]_vars

\* C25 as the code has it: the reset time of a window that has expired is
\* set to the time of the admit plus the window length.
C25_ResetRestartsFromNow ==
    [][LET minuteRestart(w, t) == t + MinuteMs
           hourRestart(w, t) == t + HourMs
       IN  AdmitResets(minuteRestart, hourRestart)]_vars

\* C25 witness: an admit has restarted the hour window and kept the minute
\* window with its count
C25_Witness ==
    /\ last.op = "admit" /\ last.result = "ok"
    /\ \E u \in DOMAIN userWindows :
          /\ userWindows[u].hourReset = now + HourMs
          /\ userWindows[u].hourCount = 1
          /\ userWindows[u].minuteReset < now + MinuteMs
          /\ userWindows[u].minuteCount > 1

RECURSIVE RedactedUpTo(_, _)
\* the variable redacted of scan(text) after the first k patterns
RedactedUpTo(k, text) ==
    IF k = 0 THEN text
    ELSE IF PIITest(k, text) THEN PIIReplace(k, RedactedUpTo(k - 1, text))
    ELSE RedactedUpTo(k - 1, text)

\* the categories a scan reports
Reported(result) == {result.detectedTypes[i] : i \in 1..Len(result.detectedTypes)}

\* the pieces of a text that are replacement markers of the first k patterns
MarkersUpTo(k, text) ==
    [i \in {j \in 1..Len(text) : \E m \in 1..k : text[j] = PII_PATTERNS[m].replacement}
        |-> text[i]]

\* no marker of the first k - 1 patterns is touched by pattern k
MarkersKept(k, text) ==
    LET before == RedactedUpTo(k - 1, text)
        after == RedactedUpTo(k, text)
        markersBefore == MarkersUpTo(k - 1, before)
        markersAfter == MarkersUpTo(k - 1, after)
    IN  Cardinality(DOMAIN markersBefore) = Cardinality(DOMAIN markersAfter)

\* C26: each pattern is applied, in declaration order, to the accumulating
\* redacted string: a category is matched, and so reported, only if its
\* pattern matches the text as the earlier patterns redacted it, and what
\* an earlier category replaced is not processed again.
C26_LaterPatternsSeeRedactedText ==
    (last.op = "called" /\ last.unit = "scan") =>
        \A k \in 1..Len(PII_PATTERNS) :
            /\ PII_PATTERNS[k].name \in Reported(last.result) =>
                  PIITest(k, RedactedUpTo(k - 1, last.input))
            /\ MarkersKept(k, last.input)

\* C26 as the code has it: each pattern is tested on the text as given, so
\* every category that matches the given text is reported, in declaration
\* order; its replacement is made in the accumulating redacted string, so
\* what an earlier category replaced is not replaced again.
C26_TestedOnGivenReplacedInRedacted ==
    (last.op = "called" /\ last.unit = "scan") =>
        /\ \A k \in 1..Len(PII_PATTERNS) :
              /\ PII_PATTERNS[k].name \in Reported(last.result) <=> PIITest(k, last.input)
              /\ MarkersKept(k, last.input)
              /\ ~PIITest(k, RedactedUpTo(k - 1, last.input)) =>
                    RedactedUpTo(k, last.input) = RedactedUpTo(k - 1, last.input)
        /\ \A i, j \in 1..Len(last.result.detectedTypes) :
              i < j => \E a, b \in 1..Len(PII_PATTERNS) :
                          /\ a < b
                          /\ PII_PATTERNS[a].name = last.result.detectedTypes[i]
                          /\ PII_PATTERNS[b].name = last.result.detectedTypes[j]
        /\ last.result.redacted = RedactedUpTo(Len(PII_PATTERNS), last.input)
        /\ last.result.containsPII <=> Reported(last.result) # {}

\* C26 witness: a ZIP+4 that is replaced as an SSN and reported as both
C26_Witness ==
    /\ last.op = "called" /\ last.unit = "scan"
    /\ last.input = <<"Why", " ", "12345-6789">>
    /\ last.result.detectedTypes = <<"SSN", "ZipCode">>
    /\ last.result.redacted = <<"Why", " ", "[SSN REDACTED]">>

\* C27: when no JSON verdict is parsed from the audit output, the score is
\* 0.9, 0.6 or 0.3 for a confidence of high, medium or low, and grounded
\* is true exactly when the score is at least 0.8, that is, only for high.
C27_FallbackScores ==
    (last.op = "called" /\ last.unit = "check" /\ last.input[2].kind = "text") =>
        LET verdict == last.result.result
            confidence == last.input[2].confidence
        IN  /\ ~last.result.thrown
            /\ confidence = "high" => verdict.score = 9
            /\ confidence = "medium" => verdict.score = 6
            /\ confidence = "low" => verdict.score = 3
            /\ verdict.grounded <=> verdict.score >= GroundingThreshold
            /\ verdict.grounded <=> confidence = "high"

\* C27 witness: an audit without JSON and of medium confidence gives an
\* ungrounded verdict of score 0.6
C27_Witness ==
    /\ last.op = "called" /\ last.unit = "check"
    /\ last.input[2].kind = "text" /\ last.input[2].confidence = "medium"
    /\ last.result.result.score = 6 /\ ~last.result.result.grounded

\* C28: a verdict returned by check is grounded only if its score is at
\* least 0.8.
C28_GroundedOnlyAboveThreshold ==
    (last.op = "called" /\ last.unit = "check") =>
        (last.result.result.grounded => last.result.result.score >= GroundingThreshold)

\* C29: the counters of every identity that has a window stay within
\* their caps and are never negative.
C29_CountersWithinCaps ==
    \A u \in DOMAIN userWindows :
        /\ userWindows[u].concurrent \in 0..maxConcurrent
        /\ userWindows[u].minuteCount \in 0..requestsPerMinute
        /\ userWindows[u].hourCount \in 0..requestsPerHour

\* C29 witness: an identity with all three counters at their caps
C29_Witness ==
    \E u \in DOMAIN userWindows :
        /\ userWindows[u].concurrent = maxConcurrent
        /\ userWindows[u].minuteCount = requestsPerMinute
        /\ userWindows[u].hourCount = requestsPerHour

\* the times after now at which the next admit is looked at
LaterTimes == {now, now + 1, now + MinuteMs, now + HourMs}

\* C30: the sweep is invisible to callers: at every later time an admit of
\* an identity succeeds, or fails with the same reason, whether or not the
\* sweep has just run.
C30_SweepInvisible ==
    \A u \in Users, t \in LaterTimes :
        checkAndIncrement(Limiter(cleanup(userWindows, now)), u, t).thrown
            = checkAndIncrement(Limiter(userWindows), u, t).thrown

=========================================================================
